---- MODULE Spec2Model ----
(***************************************************************************)
(* Model of src/live_inserter.py: the synthetic storage-usage generator.   *)
(*                                                                         *)
(* Time is counted in whole minutes since datetime(2025, 4, 10), the       *)
(* default that get_last_timestamp returns.  Storage values are counted in *)
(* hundredths of a GB (the code rounds every stored number to 2 places);   *)
(* the random draws of generate_value are counted in 1/10000 GB, so that   *)
(* round(x, 2) is a real rounding.                                         *)
(***************************************************************************)
EXTENDS Integers, Sequences, FiniteSets, TLC

(* ----------------------------- bounds --------------------------------- *)
\* the clock stops at MaxClock minutes after the origin
MaxClock == 62
\* exceptions raised: by the store, in generate_value, in a live cycle
MaxUpsets == 1
\* a step that takes time ends on a cadence boundary, Early minutes after
\* one, or one minute before the next
Early == 2

(* ------------------------ program constants --------------------------- *)
Origin == 0
Cadence == 15
PingEvery == 5
Backoff == 1

\* the profile table, in iteration order (dict order), in 1/10000 GB
DirOrder == <<"/scratch", "/projects">>
Dirs == {DirOrder[i] : i \in DOMAIN DirOrder}
profiles ==
  [d \in {"/scratch", "/projects", "/customer", "/info"} |->
     CASE d = "/scratch"  -> [base |-> 15000000, volatility |-> 65000, drift |-> 80, spike |-> 40, drop |-> 30]
       [] d = "/projects" -> [base |-> 9000000,  volatility |-> 40000, drift |-> 55, spike |-> 25, drop |-> 20]
       [] d = "/customer" -> [base |-> 6000000,  volatility |-> 20000, drift |-> 30, spike |-> 15, drop |-> 10]
       [] OTHER           -> [base |-> 4000000,  volatility |-> 12000, drift |-> 18, spike |-> 10, drop |-> 8]]

\* cfg["base"] as a stored value (hundredths of a GB)
Base(cfg) == cfg.base \div 100

Max(a, b) == IF a >= b THEN a ELSE b
Abs(a) == IF a >= 0 THEN a ELSE -a

(* --------------------------- generate_value --------------------------- *)
\* Python's round(x, 2) of x >= 0 given in 1/10000: the nearest hundredth,
\* a tie going to the even one
Round2(x) ==
  LET q == x \div 100
      r == x % 100
  IN  IF r < 50 THEN q
      ELSE IF r > 50 THEN q + 1
      ELSE IF q % 2 = 0 THEN q ELSE q + 1

\* One outcome of the random draws of generate_value.  zdrift and znoise are
\* the two normal draws in quarter standard deviations, spike/drop the two
\* rand() < p tests with the uniform amounts (in GB), fail the exception path.
MkDraw(zd, zn, sp, spAmt, dr, drAmt, f) ==
  [zdrift |-> zd, znoise |-> zn, spike |-> sp, spikeAmt |-> spAmt,
   drop |-> dr, dropAmt |-> drAmt, fail |-> f]

SpikeMin == 10
SpikeMax == 60
DropMin == 5
DropMax == 80

\* generate_value without the max(..., 0) of line 69
generate_value_unclamped(prev_val, cfg, draw) ==
  IF draw.fail
  THEN <<prev_val + 1, 1, 0, 1>>
  ELSE LET drift == cfg.drift + (draw.zdrift * (cfg.drift \div 4)) \div 4
           noise == (draw.znoise * cfg.volatility) \div 4
           change == noise
                     + (IF draw.spike THEN draw.spikeAmt * 10000 ELSE 0)
                     - (IF draw.drop THEN draw.dropAmt * 10000 ELSE 0)
           total == prev_val * 100 + drift + change
           new_val == IF total >= 0 THEN Round2(total) ELSE -Round2(-total)
           delta == new_val - prev_val
       IN  <<new_val, Max(delta, 0), Max(-delta, 0), Abs(delta)>>

\* generate_value with updated taken as the signed difference (no abs)
generate_value_signed(prev_val, cfg, draw) ==
  IF draw.fail
  THEN <<prev_val + 1, 1, 0, 1>>
  ELSE LET drift == cfg.drift + (draw.zdrift * (cfg.drift \div 4)) \div 4
           noise == (draw.znoise * cfg.volatility) \div 4
           change == noise
                     + (IF draw.spike THEN draw.spikeAmt * 10000 ELSE 0)
                     - (IF draw.drop THEN draw.dropAmt * 10000 ELSE 0)
           new_val == Round2(Max(prev_val * 100 + drift + change, 0))
           delta == new_val - prev_val
       IN  <<new_val, Max(delta, 0), Max(-delta, 0), delta>>

generate_value(prev_val, cfg, draw) ==
  IF draw.fail
  THEN <<prev_val + 1, 1, 0, 1>>
  ELSE LET drift == cfg.drift + (draw.zdrift * (cfg.drift \div 4)) \div 4
           noise == (draw.znoise * cfg.volatility) \div 4
           change == noise
                     + (IF draw.spike THEN draw.spikeAmt * 10000 ELSE 0)
                     - (IF draw.drop THEN draw.dropAmt * 10000 ELSE 0)
           new_val == Round2(Max(prev_val * 100 + drift + change, 0))
           delta == new_val - prev_val
       IN  <<new_val, Max(delta, 0), Max(-delta, 0), Abs(delta)>>

\* the draws the scheduler's runs are explored with: a quiet rise on the
\* normal path, and the exception path
Quiet == MkDraw(0, 1, FALSE, SpikeMin, FALSE, DropMin, FALSE)
Thrown == MkDraw(0, 0, FALSE, SpikeMin, FALSE, DropMin, TRUE)
\* the draws of a batch of n documents: all quiet, or one of them thrown
DrawSeqs(n) ==
  {[i \in 1..n |-> Quiet]}
    \cup {[i \in 1..n |-> IF i = k THEN Thrown ELSE Quiet] : k \in 1..n}
Throws(draws) == Cardinality({i \in DOMAIN draws : draws[i].fail})

(* ------------------------------ store --------------------------------- *)
\* a document of usage_logs; the directory is the key of store
Doc(ts, g) ==
  [timestamp |-> ts, storage_gb |-> g[1], added_gb |-> g[2],
   deleted_gb |-> g[3], updated_gb |-> g[4]]

Timestamps(docs) == {docs[i].timestamp : i \in DOMAIN docs}
MaxOf(S) == CHOOSE x \in S : \A y \in S : y <= x

\* get_last_timestamp with the default one cadence before the origin
get_last_timestamp_before_origin(docs, findFails) ==
  IF findFails THEN Origin - Cadence
  ELSE IF docs = <<>> THEN Origin - Cadence ELSE MaxOf(Timestamps(docs))

\* get_last_timestamp: the newest timestamp, or the default when there is no
\* document or the query raises
get_last_timestamp(docs, findFails) ==
  IF findFails THEN Origin
  ELSE IF docs = <<>> THEN Origin ELSE MaxOf(Timestamps(docs))

\* collection.find_one({"directory": d, "timestamp": ts}): any matching document
find_one(docs, ts) == {docs[i] : i \in {j \in DOMAIN docs : docs[j].timestamp = ts}}

\* line 159 always taking the base
seed_values_base(found, cfg) == {Base(cfg)}

\* line 159: the value backfill starts from, the found document's or the base
seed_values(found, cfg) ==
  IF found = {} THEN {Base(cfg)} ELSE {x.storage_gb : x \in found}

\* date_range running to the first boundary at or after end_ts
date_range_past_end(start_ts, end_ts) ==
  IF start_ts > end_ts THEN <<>>
  ELSE [i \in 1..((end_ts - start_ts + Cadence - 1) \div Cadence + 1) |->
          start_ts + (i - 1) * Cadence]

\* pd.date_range(start=start_ts, end=end_ts, freq="15min")
date_range(start_ts, end_ts) ==
  IF start_ts > end_ts THEN <<>>
  ELSE [i \in 1..((end_ts - start_ts) \div Cadence + 1) |-> start_ts + (i - 1) * Cadence]

\* the loop of generate_and_bulk_insert: one document per timestamp, each
\* generated from the previous one's value
RECURSIVE BuildDocs(_, _, _, _)
BuildDocs(cfg, timestamps, draws, prev_val) ==
  IF timestamps = <<>> THEN <<>>
  ELSE LET g == generate_value(prev_val, cfg, Head(draws))
       IN  <<Doc(Head(timestamps), g)>>
             \o BuildDocs(cfg, Tail(timestamps), Tail(draws), g[1])

\* generate_and_bulk_insert: what reaches the store and what is returned.
\* insFails: insert_many raises after `kept` documents were stored.
generate_and_bulk_insert(cfg, start_ts, end_ts, prev_val, draws, insFails, kept) ==
  LET timestamps == date_range(start_ts, end_ts)
      docs == BuildDocs(cfg, timestamps, draws, prev_val)
      n == Len(docs)
  IN  IF n = 0
      THEN [written |-> <<>>, prev_val |-> prev_val, last_timestamp |-> start_ts - Cadence]
      ELSE IF insFails
      THEN [written |-> SubSeq(docs, 1, kept), prev_val |-> docs[n].storage_gb,
            last_timestamp |-> start_ts - Cadence]
      ELSE [written |-> docs, prev_val |-> docs[n].storage_gb,
            last_timestamp |-> timestamps[n]]

(* ------------------ src/main.py: compare_snapshots -------------------- *)
\* A snapshot maps a file path to its size.  Sizes are counted in bytes here;
\* the code holds os.path.getsize(fp) / 1024, so a difference of more than
\* 0.01 KB is a difference of bytes * PerKB > KB.
KB == 1024
PerKB == 100

\* the paths and sizes compare_snapshots is explored with: sizes 10 bytes
\* (below the threshold) and 11 bytes (above it) apart
Paths == {"a", "b", "c"}
Sizes == {0, 2048, 2058, 2059}
Snapshots == UNION {[S -> Sizes] : S \in SUBSET Paths}

\* compare_snapshots with every change of size counted as a modification
compare_snapshots_any_change(prev_snapshot, curr_snapshot) ==
  LET deleted == {f \in DOMAIN prev_snapshot : f \notin DOMAIN curr_snapshot}
      modified == {f \in DOMAIN prev_snapshot :
                     /\ f \in DOMAIN curr_snapshot
                     /\ curr_snapshot[f] # prev_snapshot[f]}
      added == {f \in DOMAIN curr_snapshot : f \notin DOMAIN prev_snapshot}
  IN  [added |-> [f \in added |-> curr_snapshot[f]],
       deleted |-> [f \in deleted |-> prev_snapshot[f]],
       modified |-> [f \in modified |-> [old_size_kb |-> prev_snapshot[f],
                                         new_size_kb |-> curr_snapshot[f]]]]

\* compare_snapshots: the three dicts it returns
compare_snapshots(prev_snapshot, curr_snapshot) ==
  LET deleted == {f \in DOMAIN prev_snapshot : f \notin DOMAIN curr_snapshot}
      modified == {f \in DOMAIN prev_snapshot :
                     /\ f \in DOMAIN curr_snapshot
                     /\ Abs(curr_snapshot[f] - prev_snapshot[f]) * PerKB > KB}
      added == {f \in DOMAIN curr_snapshot : f \notin DOMAIN prev_snapshot}
  IN  [added |-> [f \in added |-> curr_snapshot[f]],
       deleted |-> [f \in deleted |-> prev_snapshot[f]],
       modified |-> [f \in modified |-> [old_size_kb |-> prev_snapshot[f],
                                         new_size_kb |-> curr_snapshot[f]]]]

(* ------------------------------ ping_self ----------------------------- *)
\* what one probe can meet: no URL configured, a 200, another status, a
\* network error, no answer within the 5 seconds of the request
Outcomes == {"unconfigured", "success", "non200", "error", "timeout"}

\* ping_self letting the exceptions of requests.get through
ping_self_raising(outcome) ==
  IF outcome = "unconfigured" THEN [returned |-> TRUE, raised |-> FALSE]
  ELSE IF outcome \in {"success", "non200"} THEN [returned |-> TRUE, raised |-> FALSE]
  ELSE [returned |-> FALSE, raised |-> TRUE]

\* ping_self: what it returns and whether an exception leaves it
ping_self(outcome) ==
  IF outcome = "unconfigured" THEN [returned |-> TRUE, raised |-> FALSE]
  ELSE IF outcome \in {"success", "non200"} THEN [returned |-> TRUE, raised |-> FALSE]
  ELSE [returned |-> TRUE, raised |-> FALSE]

(* ------------------------------ state --------------------------------- *)
VARIABLES
  clock,          \* datetime.now(), in minutes
  store,          \* usage_logs: directory -> documents in insertion order
  pc,             \* where live_data_insertion_loop is
  idx,            \* position of the for loop over profiles.items()
  now,            \* the local `now`
  last_vals,      \* the dict last_vals
  next_live_ts,   \* the local next_live_ts
  next_ping_time, \* the local next_ping_time
  wake_at,        \* when the current time.sleep returns
  upsets,         \* exceptions raised so far
  ev,             \* what the last step did
  last_probe,     \* when a ping_self thread was last started (-1: never)
  gen,            \* one call of generate_value: its arguments and its result
  cmp             \* one call of compare_snapshots: its arguments and its result

vars == <<clock, store, pc, idx, now, last_vals, next_live_ts, next_ping_time,
          wake_at, upsets, ev, last_probe, gen, cmp>>

NoEv == [op |-> "none", dir |-> "", failed |-> "", T |-> -1, prev |-> -1, wrote |-> 0,
         probed |-> FALSE,
         outcome |-> "", raised |-> FALSE, joined |-> FALSE]

NoGen == [called |-> FALSE, prev_val |-> 0, directory |-> "", draw |-> Quiet, result |-> <<>>]

NoCmp == [called |-> FALSE, prev |-> <<>>, curr |-> <<>>, result |-> <<>>]

NumDirs == Len(DirOrder)

\* line 218 moved before the insert_one
live_last_vals_early(lv, directory, current, insFails) ==
  [lv EXCEPT ![directory] = current]

\* lines 210-221: last_vals after the insert_one of a live iteration; the
\* assignment of line 218 is skipped when insert_one raises
live_last_vals(lv, directory, current, insFails) ==
  IF insFails THEN lv ELSE [lv EXCEPT ![directory] = current]

\* the exceptions raised in one loop iteration
Raised(findFails, oneFails, insFails, draws) ==
  (IF findFails THEN 1 ELSE 0) + (IF oneFails THEN 1 ELSE 0)
    + (IF insFails THEN 1 ELSE 0) + Throws(draws)

\* the instants at which a step that takes time may end
OnGrid(t) == t % Cadence \in {0, Early, Cadence - 1}
NextInstant(t) == CHOOSE u \in (t + 1)..(t + Cadence) :
                    OnGrid(u) /\ \A v \in (t + 1)..(u - 1) : ~OnGrid(v)

\* lines 181-185: the next quarter of the hour after t
next_slot_after(t) == (t \div Cadence + 1) * Cadence

Init ==
  /\ clock = Origin
  /\ store = [d \in Dirs |-> <<>>]
  /\ pc = "start"
  /\ idx = 1
  /\ now = Origin
  /\ last_vals = <<>>
  /\ next_live_ts = Origin
  /\ next_ping_time = Origin
  /\ wake_at = Origin
  /\ upsets = 0
  /\ ev = NoEv
  /\ last_probe = -1
  /\ gen = NoGen
  /\ cmp = NoCmp

(* ------------------------------ actions ------------------------------- *)
\* time passes while the process is down or waits for the start-up ping
\* (pc = "start"), and while the store operations of a loop run
Tick ==
  /\ NextInstant(clock) <= MaxClock
  /\ \/ pc = "start"
     \/ pc \in {"backfill", "live"} /\ idx > NumDirs
  /\ clock' = NextInstant(clock)
  /\ UNCHANGED <<store, pc, idx, now, last_vals, next_live_ts, next_ping_time,
                 wake_at, upsets, ev, last_probe>>
  /\ UNCHANGED <<gen, cmp>>

\* lines 131-151: the start-up ping, then the snapshot of now
Start ==
  /\ pc = "start"
  /\ now' = clock
  /\ pc' = "backfill"
  /\ idx' = 1
  /\ last_vals' = <<>>
  /\ \E outcome \in Outcomes :
       \* the probe runs in a thread that is joined for at most 10 seconds
       ev' = [NoEv EXCEPT !.op = "start", !.probed = TRUE, !.outcome = outcome,
                          !.raised = ping_self(outcome).raised, !.joined = TRUE]
  /\ last_probe' = clock
  /\ UNCHANGED <<clock, store, next_live_ts, next_ping_time, wake_at, upsets>>
  /\ UNCHANGED <<gen, cmp>>

\* lines 154-174: one iteration of the backfill loop
Backfill ==
  /\ pc = "backfill"
  /\ idx <= NumDirs
  /\ LET directory == DirOrder[idx]
         cfg == profiles[directory]
         docs == store[directory]
         T == IF docs = <<>> THEN -1 ELSE MaxOf(Timestamps(docs))
     IN  \E findFails \in BOOLEAN, oneFails \in BOOLEAN, insFails \in BOOLEAN :
           LET last_ts == get_last_timestamp(docs, findFails)
               start_ts == last_ts + Cadence
               found == find_one(docs, last_ts)
           IN
           /\ IF oneFails
              THEN \* find_one raises: the except of line 171
                   /\ ~insFails
                   /\ upsets + Raised(findFails, oneFails, insFails, <<>>) <= MaxUpsets
                   /\ upsets' = upsets + Raised(findFails, oneFails, insFails, <<>>)
                   /\ store' = store
                   /\ last_vals' = (directory :> Base(cfg)) @@ last_vals
                   /\ ev' = [op |-> "backfill", dir |-> directory,
                             failed |-> IF findFails THEN "find+find_one" ELSE "find_one",
                             T |-> T, prev |-> -1, wrote |-> 0, probed |-> FALSE,
                                            outcome |-> "", raised |-> FALSE, joined |-> FALSE]
              ELSE \E prev_val \in seed_values(found, cfg) :
                   IF start_ts <= now
                   THEN LET n == Len(date_range(start_ts, now)) IN
                        \E draws \in DrawSeqs(n), kept \in 0..(n - 1) :
                          LET r == generate_and_bulk_insert(cfg, start_ts, now, prev_val,
                                                            draws, insFails, kept)
                          IN
                          /\ insFails \/ kept = 0
                          /\ upsets + Raised(findFails, oneFails, insFails, draws) <= MaxUpsets
                          /\ upsets' = upsets + Raised(findFails, oneFails, insFails, draws)
                          /\ store' = [store EXCEPT ![directory] = @ \o r.written]
                          /\ last_vals' = (directory :> r.prev_val) @@ last_vals
                          /\ ev' = [op |-> "backfill", dir |-> directory,
                                    failed |-> IF insFails
                                               THEN (IF findFails THEN "find+insert_many" ELSE "insert_many")
                                               ELSE (IF findFails THEN "find" ELSE ""),
                                    T |-> T, prev |-> prev_val,
                                    wrote |-> Len(r.written), probed |-> FALSE,
                                            outcome |-> "", raised |-> FALSE, joined |-> FALSE]
                   ELSE /\ ~insFails
                        /\ upsets + Raised(findFails, oneFails, insFails, <<>>) <= MaxUpsets
                        /\ upsets' = upsets + Raised(findFails, oneFails, insFails, <<>>)
                        /\ store' = store
                        /\ last_vals' = (directory :> prev_val) @@ last_vals
                        /\ ev' = [op |-> "backfill", dir |-> directory,
                                  failed |-> IF findFails THEN "find" ELSE "",
                                  T |-> T, prev |-> prev_val, wrote |-> 0, probed |-> FALSE,
                                            outcome |-> "", raised |-> FALSE, joined |-> FALSE]
  /\ idx' = idx + 1
  /\ UNCHANGED <<clock, pc, now, next_live_ts, next_ping_time, wake_at, last_probe>>
  /\ UNCHANGED <<gen, cmp>>

\* ComputeNextSlot leaving the backfill loop before its last iteration
ComputeNextSlot_early ==
  /\ pc = "backfill"
  /\ idx >= NumDirs
  /\ next_live_ts' = next_slot_after(clock)
  /\ pc' = "waiting"
  /\ ev' = [NoEv EXCEPT !.op = "wait"]
  /\ UNCHANGED <<clock, store, idx, now, last_vals, next_ping_time, wake_at, upsets,
                 last_probe>>
  /\ UNCHANGED <<gen, cmp>>

\* lines 176-187: the backfill loop is over; the slot to wait for
ComputeNextSlot ==
  /\ pc = "backfill"
  /\ idx > NumDirs
  /\ next_live_ts' = next_slot_after(clock)
  /\ pc' = "waiting"
  /\ ev' = [NoEv EXCEPT !.op = "wait"]
  /\ UNCHANGED <<clock, store, idx, now, last_vals, next_ping_time, wake_at, upsets,
                 last_probe>>
  /\ UNCHANGED <<gen, cmp>>

\* lines 190-202: the polling loop runs out at next_live_ts; live mode is
\* entered and the first cycle takes its snapshot of now
EnterLive ==
  /\ pc = "waiting"
  /\ next_live_ts <= MaxClock
  /\ clock' = next_live_ts
  /\ next_ping_time' = clock' + PingEvery
  /\ now' = clock'
  /\ pc' = "live"
  /\ idx' = 1
  /\ ev' = [NoEv EXCEPT !.op = "enter"]
  /\ UNCHANGED <<store, last_vals, next_live_ts, wake_at, upsets, last_probe>>
  /\ UNCHANGED <<gen, cmp>>

\* lines 204-221: one iteration of the live loop
LiveInsert ==
  /\ pc = "live"
  /\ idx <= NumDirs
  /\ LET directory == DirOrder[idx]
         cfg == profiles[directory]
         prev_val == last_vals[directory]
     IN  \E draw \in {Quiet, Thrown}, insFails \in BOOLEAN :
           LET g == generate_value(prev_val, cfg, draw) IN
           /\ upsets + Raised(FALSE, FALSE, insFails, <<draw>>) <= MaxUpsets
           /\ upsets' = upsets + Raised(FALSE, FALSE, insFails, <<draw>>)
           /\ store' = IF insFails THEN store
                       ELSE [store EXCEPT ![directory] = Append(@, Doc(now, g))]
           /\ last_vals' = live_last_vals(last_vals, directory, g[1], insFails)
           /\ ev' = [op |-> "live", dir |-> directory,
                     failed |-> IF insFails THEN "insert_one" ELSE "",
                     T |-> -1, prev |-> prev_val, wrote |-> IF insFails THEN 0 ELSE 1,
                     probed |-> FALSE,
                                            outcome |-> "", raised |-> FALSE, joined |-> FALSE]
  /\ idx' = idx + 1
  /\ UNCHANGED <<clock, pc, now, next_live_ts, next_ping_time, wake_at, last_probe>>
  /\ UNCHANGED <<gen, cmp>>

\* lines 225-239: the probe when it is due, then the sleep to the next slot
EndCycle ==
  /\ pc = "live"
  /\ idx > NumDirs
  /\ LET due == clock >= next_ping_time
         next_slot == now + Cadence
         sleep_time == IF next_slot - clock <= 0 THEN Cadence ELSE next_slot - clock
     IN  /\ next_ping_time' = IF due THEN clock + PingEvery ELSE next_ping_time
         /\ last_probe' = IF due THEN clock ELSE last_probe
         /\ wake_at' = clock + sleep_time
         /\ \E outcome \in (IF due THEN Outcomes ELSE {""}) :
              \* the probe runs in a thread that is not joined
              ev' = [NoEv EXCEPT !.op = "sleep", !.probed = due, !.outcome = outcome,
                                 !.raised = IF due THEN ping_self(outcome).raised
                                            ELSE FALSE]
  /\ pc' = "sleeping"
  /\ UNCHANGED <<clock, store, idx, now, last_vals, next_live_ts, upsets>>
  /\ UNCHANGED <<gen, cmp>>

\* CycleFault with the exception leaving the while loop
CycleFault_exits ==
  /\ pc = "live"
  /\ idx > NumDirs
  /\ upsets < MaxUpsets
  /\ upsets' = upsets + 1
  /\ \E probed \in BOOLEAN :
       LET due == clock >= next_ping_time IN
       /\ probed => due
       /\ next_ping_time' = IF probed THEN clock + PingEvery ELSE next_ping_time
       /\ last_probe' = IF probed THEN clock ELSE last_probe
       /\ \E outcome \in (IF probed THEN Outcomes ELSE {""}) :
            ev' = [NoEv EXCEPT !.op = "fault", !.probed = probed, !.outcome = outcome,
                               !.raised = IF probed THEN ping_self(outcome).raised
                                          ELSE FALSE]
  /\ wake_at' = clock + Backoff
  /\ pc' = "exited"
  /\ UNCHANGED <<clock, store, idx, now, last_vals, next_live_ts>>
  /\ UNCHANGED <<gen, cmp>>

\* lines 241-244: an exception outside the per-series try, raised by the
\* start of the probe thread or by the sleep
CycleFault ==
  /\ pc = "live"
  /\ idx > NumDirs
  /\ upsets < MaxUpsets
  /\ upsets' = upsets + 1
  /\ \E probed \in BOOLEAN :
       LET due == clock >= next_ping_time IN
       /\ probed => due
       /\ next_ping_time' = IF probed THEN clock + PingEvery ELSE next_ping_time
       /\ last_probe' = IF probed THEN clock ELSE last_probe
       /\ \E outcome \in (IF probed THEN Outcomes ELSE {""}) :
            ev' = [NoEv EXCEPT !.op = "fault", !.probed = probed, !.outcome = outcome,
                               !.raised = IF probed THEN ping_self(outcome).raised
                                          ELSE FALSE]
  /\ wake_at' = clock + Backoff
  /\ pc' = "backoff"
  /\ UNCHANGED <<clock, store, idx, now, last_vals, next_live_ts>>
  /\ UNCHANGED <<gen, cmp>>

\* line 199-201: a sleep returns and the next cycle takes its snapshot of now
Wake ==
  /\ pc \in {"sleeping", "backoff"}
  /\ wake_at <= MaxClock
  /\ clock' = wake_at
  /\ now' = clock'
  /\ pc' = "live"
  /\ idx' = 1
  /\ ev' = [NoEv EXCEPT !.op = "wake"]
  /\ UNCHANGED <<store, last_vals, next_live_ts, next_ping_time, wake_at, upsets,
                 last_probe>>
  /\ UNCHANGED <<gen, cmp>>

\* the process is killed and started again: everything in memory is lost
Crash ==
  /\ pc # "start"
  /\ pc' = "start"
  /\ idx' = 1
  /\ now' = Origin
  /\ last_vals' = <<>>
  /\ next_live_ts' = Origin
  /\ next_ping_time' = Origin
  /\ wake_at' = Origin
  /\ ev' = [NoEv EXCEPT !.op = "crash"]
  /\ last_probe' = -1
  /\ UNCHANGED <<clock, store, upsets>>
  /\ UNCHANGED <<gen, cmp>>

Next ==
  \/ Tick
  \/ Start
  \/ Backfill
  \/ ComputeNextSlot
  \/ EnterLive
  \/ LiveInsert
  \/ EndCycle
  \/ CycleFault
  \/ Wake
  \/ Crash

Spec == Init /\ [][Next]_vars

(* ------------------------------ claims -------------------------------- *)
\* one iteration of the backfill loop, of the live loop
BackfillStep == pc = "backfill" /\ idx <= NumDirs /\ pc' = "backfill" /\ idx' = idx + 1
LiveStep == pc = "live" /\ idx <= NumDirs /\ pc' = "live" /\ idx' = idx + 1
\* the documents a step adds to a directory
Appended(d) == SubSeq(store'[d], Len(store[d]) + 1, Len(store'[d]))
\* the newest persisted timestamp of a directory (-1: none)
Latest(docs) == IF docs = <<>> THEN -1 ELSE MaxOf(Timestamps(docs))
\* the documents the last backfill iteration added
LastBatch == SubSeq(store[ev.dir], Len(store[ev.dir]) - ev.wrote + 1, Len(store[ev.dir]))

\* C1: no (directory, timestamp) is persisted twice, and whenever a backfill
\* iteration writes for a directory that has persisted samples, the first
\* timestamp it writes is the newest persisted one plus one cadence.
C1_NoBoundaryTwice ==
  /\ \A d \in Dirs : \A i, j \in DOMAIN store[d] :
       i # j => store[d][i].timestamp # store[d][j].timestamp
  /\ (ev.op = "backfill" /\ ev.wrote > 0 /\ ev.T >= 0)
       => LastBatch[1].timestamp = ev.T + Cadence

C3_BackfillFromLatest ==
  [][(BackfillStep /\ Latest(store[DirOrder[idx]]) >= 0
        /\ now >= Latest(store[DirOrder[idx]]) + Cadence /\ ev'.failed = "")
       => LET w == Appended(DirOrder[idx])
              T == Latest(store[DirOrder[idx]])
              n == (now - T) \div Cadence
          IN  /\ Len(w) = n
              /\ \A i \in 1..n : w[i].timestamp = T + i * Cadence
              /\ w[n].timestamp <= now
              /\ now - w[n].timestamp < Cadence]_vars

\* the spec's scenario: the newest sample at T, now = T + 47 minutes, and
\* exactly the three samples T + 15, T + 30, T + 45 written
C3_Witness ==
  /\ ev.op = "backfill" /\ ev.failed = "" /\ ev.T >= 0 /\ now = ev.T + 47
  /\ ev.wrote = 3
  /\ LastBatch[3].timestamp = ev.T + 45

\* C4: backfill of a directory that is already current (newest persisted
\* timestamp + cadence after now), its store calls returning, writes nothing
\* and sets last_vals of the directory to the value of the newest persisted
\* sample.
C4_CurrentWritesNothing ==
  [][(BackfillStep /\ Latest(store[DirOrder[idx]]) >= 0
        /\ Latest(store[DirOrder[idx]]) + Cadence > now /\ ev'.failed = "")
       => LET d == DirOrder[idx]
              T == Latest(store[d])
          IN  /\ store' = store
              /\ d \in DOMAIN last_vals'
              /\ \E i \in DOMAIN store[d] :
                   store[d][i].timestamp = T /\ last_vals'[d] = store[d][i].storage_gb]_vars

\* a current directory was backfilled: nothing written, and last_vals holds
\* the persisted value, which is not the base
C4_Witness ==
  /\ ev.op = "backfill" /\ ev.failed = "" /\ ev.T >= 0 /\ ev.T + Cadence > now
  /\ ev.wrote = 0
  /\ last_vals[ev.dir] # Base(profiles[ev.dir])
  /\ \E i \in DOMAIN store[ev.dir] :
       store[ev.dir][i].timestamp = ev.T /\ store[ev.dir][i].storage_gb = last_vals[ev.dir]

\* C5: every iteration of the live loop persists exactly one new sample for
\* its directory, one cadence after the previous sample of that directory
\* (so N cycles persist exactly N new samples per directory, one cadence
\* apart).
C5_OneSamplePerCycle ==
  [][LiveStep
       => LET d == DirOrder[idx]
              w == Appended(d)
          IN  /\ Len(w) = 1
              /\ store[d] # <<>> => w[1].timestamp = Latest(store[d]) + Cadence]_vars

\* C6: for every directory, every cadence boundary between its first and its
\* newest persisted sample has a persisted sample.
C6_NoGap ==
  \A d \in Dirs :
    store[d] # <<>> =>
      \A t \in store[d][1].timestamp .. Latest(store[d]) :
        (t - Origin) % Cadence = 0 => t \in Timestamps(store[d])

\* C7: when insert_many raises in a backfill iteration, last_vals of the
\* directory is the value backfill started from: the newest persisted value,
\* or the base when nothing is persisted.
C7_FailedBatchKeepsValue ==
  [][(BackfillStep /\ ev'.failed = "insert_many")
       => LET d == DirOrder[idx]
              T == Latest(store[d])
          IN  /\ d \in DOMAIN last_vals'
              /\ IF store[d] = <<>>
                 THEN last_vals'[d] = Base(profiles[d])
                 ELSE \E i \in DOMAIN store[d] :
                        /\ store[d][i].timestamp = T
                        /\ last_vals'[d] = store[d][i].storage_gb]_vars

\* C8: when a store operation raises in the backfill iteration of a
\* directory (find, find_one or insert_many), the loop goes on to the next
\* directory and last_vals of the failed directory is its profile's base.
C8_FailedSeriesGetsBase ==
  [][(pc = "backfill" /\ idx <= NumDirs /\ ev'.op = "backfill"
        /\ ev'.failed \in {"find", "find_one", "insert_many"})
       => /\ pc' = "backfill" /\ idx' = idx + 1
          /\ DirOrder[idx] \in DOMAIN last_vals'
          /\ last_vals'[DirOrder[idx]] = Base(profiles[DirOrder[idx]])]_vars

\* C9: in an iteration of the live loop, when insert_one raises nothing is
\* stored, last_vals is unchanged and the loop goes on to the next
\* directory; when it returns, exactly one sample is stored, stamped now and
\* generated from the directory's last_vals, and last_vals of that directory
\* alone becomes the stored value.  So last_vals of a directory changes only
\* with a sample of that value stored.
C9_LiveFailureIsolated ==
  [][(pc = "live" /\ idx <= NumDirs /\ ev'.op = "live")
       => LET d == DirOrder[idx]
              w == Appended(d)
          IN  /\ pc' = "live" /\ idx' = idx + 1 /\ now' = now
              /\ \A e \in Dirs \ {d} : store'[e] = store[e] /\ last_vals'[e] = last_vals[e]
              /\ IF ev'.failed = "insert_one"
                 THEN store' = store /\ last_vals' = last_vals
                 ELSE /\ Len(w) = 1
                      /\ w[1].timestamp = now
                      /\ w[1].storage_gb - w[1].added_gb + w[1].deleted_gb = last_vals[d]
                      /\ last_vals'[d] = w[1].storage_gb]_vars

\* a cycle in which insert_one raised for the first directory and the second
\* directory was still generated and written
C9_Witness ==
  /\ pc = "live" /\ idx = NumDirs + 1
  /\ ev.op = "live" /\ ev.dir = DirOrder[2] /\ ev.failed = ""
  /\ now \notin Timestamps(store[DirOrder[1]])
  /\ now \in Timestamps(store[DirOrder[2]])
  /\ upsets = 1

\* C10: for every prev_val >= 0, every profile and every outcome of the
\* draws, generate_value returns a value >= 0 and added, deleted, updated >= 0.
C10_NonNegative ==
  gen.called =>
    /\ gen.result[1] >= 0
    /\ gen.result[2] >= 0
    /\ gen.result[3] >= 0
    /\ gen.result[4] >= 0

\* the largest drop, with no spike, from a value below it: clamped to 0
C10_Witness ==
  /\ gen.called /\ ~gen.draw.fail
  /\ gen.draw.drop /\ gen.draw.dropAmt = DropMax /\ ~gen.draw.spike
  /\ gen.prev_val > 0 /\ gen.prev_val < DropMax * 100
  /\ gen.result = <<0, 0, gen.prev_val, gen.prev_val>>

\* C11: for every result of generate_value, on the normal path and on the
\* exception path: added = max(value - prev_val, 0), deleted =
\* max(prev_val - value, 0), updated = abs(value - prev_val); so at most one
\* of added and deleted is non-zero and updated = added + deleted.
C11_DeltaIdentities ==
  gen.called =>
    LET value == gen.result[1]
        added == gen.result[2]
        deleted == gen.result[3]
        updated == gen.result[4]
    IN  /\ added = Max(value - gen.prev_val, 0)
        /\ deleted = Max(gen.prev_val - value, 0)
        /\ updated = Abs(value - gen.prev_val)
        /\ added = 0 \/ deleted = 0
        /\ updated = added + deleted

\* a fall on the normal path that was not clamped: deleted > 0, added = 0
C11_Witness ==
  /\ gen.called /\ ~gen.draw.fail
  /\ gen.result[1] > 0 /\ gen.result[1] < gen.prev_val
  /\ gen.result[3] = gen.prev_val - gen.result[1]
  /\ gen.result[2] = 0

\* C12: while the process runs (backfill, wait for the first slot, live
\* cycles and the sleeps between them) a probe is started every PingEvery
\* minutes: never more than PingEvery minutes have passed since the last one.
C12_ProbeEveryFive ==
  (pc # "start" /\ last_probe >= 0) => clock - last_probe <= PingEvery

\* C13: whatever the outcome of a probe, ping_self raises nothing; the step
\* that starts the probe leaves the persisted samples and last_vals as they
\* are and goes to the same phase for every outcome (backfill after the
\* start-up probe, the sleep after the probe of a live cycle); and a live
\* cycle does not wait for the probe: no time passes in the step, the thread
\* is not joined, and the sleep runs to now + cadence (or a full cadence).
C13_ProbeFailOpen ==
  [][ev'.probed
       => /\ ev'.outcome \in Outcomes
          /\ ~ev'.raised
          /\ store' = store
          /\ last_vals' = last_vals
          /\ clock' = clock
          /\ ev'.op \in {"start", "sleep", "fault"}
          /\ ev'.op = "start" => pc' = "backfill"
          /\ ev'.op = "fault" => pc' = "backoff"
          /\ ev'.op = "sleep"
               => /\ pc' = "sleeping"
                  /\ ~ev'.joined
                  /\ wake_at' = IF now + Cadence > clock THEN now + Cadence
                                 ELSE clock + Cadence]_vars

\* a live cycle whose probe timed out and which sleeps to the next slot, and
\* one whose probe met a network error
C13_Witness ==
  /\ pc = "sleeping" /\ ev.op = "sleep" /\ ev.probed
  /\ ev.outcome \in {"timeout", "error"}
  /\ wake_at = now + Cadence
  /\ \A d \in Dirs : now \in Timestamps(store[d])

\* the phases of live mode: a cycle, the sleep to the next slot, the backoff
LivePhases == {"live", "sleeping", "backoff"}

\* C14: the scheduler leaves the backfill loop only for the wait for the
\* first slot and only when every directory of the profile table has a
\* last_vals entry (written by its backfill or by the fallback to the base);
\* no live write happens before that; and once in live mode the process
\* stays in live mode (it never backfills again unless it is restarted).
C14_LiveAfterAllSeries ==
  [][/\ ev'.op = "live" => (pc \in LivePhases /\ DOMAIN last_vals = Dirs)
     /\ (pc = "backfill" /\ pc' # "backfill" /\ ev'.op # "crash")
          => (pc' = "waiting" /\ idx > NumDirs /\ DOMAIN last_vals = Dirs)
     /\ (pc = "waiting" /\ ev'.op # "crash")
          => (pc' = "live" /\ DOMAIN last_vals' = Dirs)
     /\ (pc \in LivePhases /\ ev'.op # "crash")
          => (pc' \in LivePhases /\ DOMAIN last_vals' = Dirs)]_vars

\* live mode is entered after a backfill in which the first directory failed
\* and fell back to its base while the second one was backfilled
C14_Witness ==
  /\ pc = "live" /\ ev.op = "enter"
  /\ DOMAIN last_vals = Dirs
  /\ store[DirOrder[1]] = <<>> /\ last_vals[DirOrder[1]] = Base(profiles[DirOrder[1]])
  /\ store[DirOrder[2]] # <<>>
  /\ last_vals[DirOrder[2]] = store[DirOrder[2]][Len(store[DirOrder[2]])].storage_gb

C16_Aligned ==
  \A d \in Dirs : \A i \in DOMAIN store[d] :
    (store[d][i].timestamp - Origin) % Cadence = 0

\* C17: at the end of a live cycle the scheduler sleeps to the cycle's
\* timestamp plus one cadence; when that is not in the future it sleeps one
\* full cadence, so the sleep is never empty and never runs past the first
\* boundary after the moment it starts.
C17_SleepToNextSlot ==
  [][ev'.op = "sleep"
       => /\ pc = "live" /\ idx > NumDirs /\ pc' = "sleeping"
          /\ IF now + Cadence - clock > 0
             THEN wake_at' = now + Cadence
             ELSE /\ wake_at' = clock + Cadence
                  /\ wake_at' > clock
                  /\ wake_at' <= next_slot_after(clock)]_vars

\* C18: every persisted sample of a directory was generated from the value
\* of the sample persisted just before it for that directory, or from the
\* profile's base when it is the first: value - added + deleted is that
\* previous value.
C18_StoreIsSourceOfTruth ==
  \A d \in Dirs : \A i \in DOMAIN store[d] :
    store[d][i].storage_gb - store[d][i].added_gb + store[d][i].deleted_gb
      = IF i = 1 THEN Base(profiles[d]) ELSE store[d][i - 1].storage_gb

\* C19: compare_snapshots(prev, curr) returns as added the paths of curr that
\* are not in prev, with their current size; as deleted the paths of prev
\* that are not in curr, with their previous size; as modified the paths of
\* both whose sizes differ by more than 0.01 KB.  The three key sets are
\* pairwise disjoint and a path of both with an unchanged size is in none.
C19_SnapshotsClassified ==
  cmp.called =>
    LET P == DOMAIN cmp.prev
        C == DOMAIN cmp.curr
        A == DOMAIN cmp.result.added
        D == DOMAIN cmp.result.deleted
        M == DOMAIN cmp.result.modified
    IN  /\ A = C \ P
        /\ \A f \in A : cmp.result.added[f] = cmp.curr[f]
        /\ D = P \ C
        /\ \A f \in D : cmp.result.deleted[f] = cmp.prev[f]
        /\ M = {f \in P \cap C : Abs(cmp.curr[f] - cmp.prev[f]) * PerKB > KB}
        /\ A \cap D = {} /\ A \cap M = {} /\ D \cap M = {}
        /\ \A f \in P \cap C : cmp.curr[f] = cmp.prev[f] => f \notin A \cup D \cup M

\* one path added, one deleted, and one in both that grew by 10 bytes, less
\* than the threshold: it is in none of the three
C19_Witness ==
  /\ cmp.called
  /\ DOMAIN cmp.result.added = {"a"} /\ cmp.result.added["a"] = cmp.curr["a"]
  /\ DOMAIN cmp.result.deleted = {"b"} /\ cmp.result.deleted["b"] = cmp.prev["b"]
  /\ "c" \in DOMAIN cmp.prev \cap DOMAIN cmp.curr
  /\ cmp.curr["c"] - cmp.prev["c"] = 10
  /\ cmp.result.modified = <<>>

(* --------------------- generate_value on its own ---------------------- *)
\* previous values around the clamp at 0 and around the largest drop, and
\* the bases of the profile table
PrevVals == {0, 1, 2, 499, 500, 501, 7999, 8000, 8001}
               \cup {Base(profiles[d]) : d \in DOMAIN profiles}
GenDraws ==
  {MkDraw(zd, zn, sp, spAmt, dr, drAmt, f) :
     zd \in {-4, 0, 4}, zn \in {-8, -3, 0, 3},
     sp \in BOOLEAN, spAmt \in {SpikeMin, SpikeMax},
     dr \in BOOLEAN, drAmt \in {DropMin, DropMax}, f \in BOOLEAN}

Generate ==
  /\ ~gen.called
  /\ \E prev_val \in PrevVals, directory \in DOMAIN profiles, draw \in GenDraws :
       gen' = [called |-> TRUE, prev_val |-> prev_val, directory |-> directory,
               draw |-> draw,
               result |-> generate_value(prev_val, profiles[directory], draw)]
  /\ UNCHANGED <<clock, store, pc, idx, now, last_vals, next_live_ts,
                 next_ping_time, wake_at, upsets, ev, last_probe, cmp>>

\* the result is fed back as the next call's previous value (line 97)
FeedForward ==
  /\ gen.called
  /\ gen.result[1] \in PrevVals
  /\ \E draw \in GenDraws :
       gen' = [called |-> TRUE, prev_val |-> gen.result[1], directory |-> gen.directory,
               draw |-> draw,
               result |-> generate_value(gen.result[1], profiles[gen.directory], draw)]
  /\ UNCHANGED <<clock, store, pc, idx, now, last_vals, next_live_ts,
                 next_ping_time, wake_at, upsets, ev, last_probe, cmp>>

GenNext ==
  \/ Generate
  \/ FeedForward

GenSpec == Init /\ [][GenNext]_vars

(* -------------------- compare_snapshots on its own -------------------- *)
\* lines 118-122 of main: a directory's previous and current snapshot are
\* compared
Compare ==
  /\ ~cmp.called
  /\ \E prev_snapshot \in Snapshots, curr_snapshot \in Snapshots :
       cmp' = [called |-> TRUE, prev |-> prev_snapshot, curr |-> curr_snapshot,
               result |-> compare_snapshots(prev_snapshot, curr_snapshot)]
  /\ UNCHANGED <<clock, store, pc, idx, now, last_vals, next_live_ts,
                 next_ping_time, wake_at, upsets, ev, last_probe, gen>>

CmpNext == Compare

CmpSpec == Init /\ [][CmpNext]_vars
====
